---- MODULE Spec2Model ----
(***************************************************************************)
(* Model of parca-agent's reference-counted handles (pkg/rc) and of the    *)
(* object-file pool built on them (pkg/objectfile).                        *)
(*                                                                         *)
(* A resource block (rc.resource) is identified by a number in Blocks, a   *)
(* handle (the pair of pointers of an rc.Reference: resource and released) *)
(* by a number in Handles, an os.File by a number in Files.                *)
(***************************************************************************)
EXTENDS Integers, Sequences, FiniteSets, TLC

\* ------------------------------------------------------------------ bounds
MaxBlocks == 2
MaxHandles == 3
MaxFiles == 2
MaxThreads == 2
MaxLen == 4
MaxEntries == 1
MaxOffset == 2
MaxCgroups == 2
MaxControllers == 1

Blocks == 1..MaxBlocks
Files == 1..MaxFiles
Threads == 1..MaxThreads

\* The handles a program obtains (from New, Clone, NewFile, Get) are numbered
\* 1..MaxHandles; the handle NewFile makes with rc.New for block b, the one
\* whose copy goes into the cache, is PoolHandle(b).
UserHandles == 1..MaxHandles
PoolHandle(b) == MaxHandles + b
Handles == 1..(MaxHandles + MaxBlocks)

\* Cache keys: the build-ids; "" is the key used when no build-id could be
\* computed (pool.go:117-120).
BuildIDs == {"a"}
Keys == BuildIDs \cup {""}

\* The closers a caller can pass to rc.New, and obj.close passed by NewFile.
ClientClosers == {"nil", "ok", "err"}

\* The places where NewFile's input can make it fail.
FailKinds == {"none", "read", "notelf", "parse", "nosections", "rewind", "stat"}

\* ------------------------------------------------------------------- state
VARIABLES
  refCount,     \* [Blocks -> Int]      resource.refCount
  resClosed,    \* [Blocks -> BOOLEAN]  resource.closed
  closer,       \* [Blocks -> STRING]   resource.closer ("unalloc": no such block yet)
  closerCalls,  \* [Blocks -> Seq]      history: who invoked resource.closer (a handle, 0 = block finalizer)
  reclaimed,    \* [Blocks -> BOOLEAN]  the block finalizer has run
  resource,     \* [Handles -> Blocks \cup {0}]  Reference.resource (0: handle not allocated)
  released,     \* [Handles -> BOOLEAN] Reference.released
  cache,        \* [Keys -> Handles \cup {0}]  Pool.c: the cached struct copy shares the handle's two pointers
  poolClosed,   \* BOOLEAN              Pool.Close has been called
  objFile,      \* [Blocks -> Files \cup {0}]  objectFile.file of the entry the block wraps
  objClosed,    \* [Blocks -> BOOLEAN]  objectFile.closed
  fileState,    \* [Files -> STRING]    "unopened", "open", "closed"
  fileCloses,   \* [Files -> Nat]       history: number of Close calls on the descriptor
  panicked,     \* STRING               "none", or the error value of the panic that ended the process
  pc,           \* [Threads -> STRING]  where each thread is inside the call it is making ("idle": in none)
  arg,          \* [Threads -> Nat]     the handle, file or entry of the call a thread is inside
  mtx,          \* [Blocks -> BOOLEAN]  objectFile.mtx is locked
  cursor,       \* [Files -> Nat]       the offset of the open file description
  reOpened,     \* [Threads -> BOOLEAN] the reOpened flag captured by the done function a thread holds
  result,       \* STRING               the error the last Open returned ("": none made yet)
  buildID,      \* [Threads -> Keys]    NewFile's local buildID
  debugFile,    \* [Blocks -> Handles \cup {0}]  Info.DebugFile of an entry (0: nil)
  cgroups,      \* Seq(Cgroup)          the cgroups read for a process
  found         \* Seq(Cgroup)          what FindFirstCPU returned (<<>>: not called)

vars == <<refCount, resClosed, closer, closerCalls, reclaimed, resource, released,
          cache, poolClosed, objFile, objClosed, fileState, fileCloses,
          panicked, mtx, cursor, pc, arg, buildID, result, reOpened,
          debugFile, cgroups, found>>

\* The program state as one record, so that a function that calls other
\* functions is the composition of their state transformers.  ret and out
\* carry a call's error and its returned handle.
Cur ==
  [refCount |-> refCount, resClosed |-> resClosed, closer |-> closer,
   closerCalls |-> closerCalls, reclaimed |-> reclaimed, resource |-> resource,
   released |-> released, cache |-> cache,
   poolClosed |-> poolClosed, objFile |-> objFile, objClosed |-> objClosed,
   fileState |-> fileState, fileCloses |-> fileCloses, panicked |-> panicked,
   mtx |-> mtx, cursor |-> cursor, debugFile |-> debugFile,
   ret |-> "nil", out |-> 0]

\* The state a step leaves in the objects the threads share.
CommitShared(s) ==
  /\ refCount' = s.refCount
  /\ resClosed' = s.resClosed
  /\ closer' = s.closer
  /\ closerCalls' = s.closerCalls
  /\ reclaimed' = s.reclaimed
  /\ resource' = s.resource
  /\ released' = s.released
  /\ cache' = s.cache
  /\ poolClosed' = s.poolClosed
  /\ objFile' = s.objFile
  /\ objClosed' = s.objClosed
  /\ fileState' = s.fileState
  /\ fileCloses' = s.fileCloses
  /\ panicked' = s.panicked
  /\ mtx' = s.mtx
  /\ cursor' = s.cursor
  /\ debugFile' = s.debugFile
  /\ UNCHANGED <<cgroups, found>>

\* The state a whole call leaves, made by a thread that is in no other call.
Commit(s) ==
  /\ CommitShared(s)
  /\ UNCHANGED <<pc, arg, buildID, result, reOpened>>

Min(S) == CHOOSE x \in S : \A y \in S : x <= y

FreeBlocks(s) == {b \in Blocks : s.closer[b] = "unalloc"}
FreeHandles(s) == {h \in UserHandles : s.resource[h] = 0}
FreeFiles(s) == {f \in Files : s.fileState[f] = "unopened"}

\* The block of the reference cached under key k (0: k is not cached).
CachedBlock(s, k) == IF s.cache[k] = 0 THEN 0 ELSE s.resource[s.cache[k]]

\* The handles over block b, and those of them not yet released.
HandlesOf(s, b) == {h \in Handles : s.resource[h] = b}
LiveHandlesOf(s, b) == {h \in HandlesOf(s, b) : ~s.released[h]}

InitProgram ==
  /\ refCount = [b \in Blocks |-> 0]
  /\ resClosed = [b \in Blocks |-> FALSE]
  /\ closer = [b \in Blocks |-> "unalloc"]
  /\ closerCalls = [b \in Blocks |-> <<>>]
  /\ reclaimed = [b \in Blocks |-> FALSE]
  /\ resource = [h \in Handles |-> 0]
  /\ released = [h \in Handles |-> FALSE]
  /\ cache = [k \in Keys |-> 0]
  /\ poolClosed = FALSE
  /\ objFile = [b \in Blocks |-> 0]
  /\ objClosed = [b \in Blocks |-> FALSE]
  /\ fileState = [f \in Files |-> "unopened"]
  /\ fileCloses = [f \in Files |-> 0]
  /\ panicked = "none"
  /\ pc = [t \in Threads |-> "idle"]
  /\ arg = [t \in Threads |-> 0]
  /\ buildID = [t \in Threads |-> ""]
  /\ result = ""
  /\ mtx = [b \in Blocks |-> FALSE]
  /\ cursor = [f \in Files |-> 0]
  /\ reOpened = [t \in Threads |-> FALSE]
  /\ debugFile = [b \in Blocks |-> 0]

Init == InitProgram /\ cgroups = <<>> /\ found = <<>>

\* ------------------------------------------------------------ objectfile
\* os.File.Close: an error on a descriptor that is already closed.
FileClose(s, f) ==
  [s EXCEPT !.fileState[f] = "closed",
            !.fileCloses[f] = @ + 1,
            !.ret = IF s.fileState[f] = "open" THEN "nil" ELSE "os.ErrClosed"]

\* Reference.MustRelease, defined with Release below.
RECURSIVE MustRelease(_, _)

\* Mutant of ObjCloseFile: closed is not set.
ObjCloseFileNoFlag(s, b) ==
  IF s.objFile[b] # 0
  THEN FileClose(s, s.objFile[b])
  ELSE [s EXCEPT !.ret = "nil"]

\* _close, the descriptor: file.Close, then closed is set.
ObjCloseFile(s, b) ==
  IF s.objFile[b] # 0
  THEN [FileClose(s, s.objFile[b]) EXCEPT !.objClosed[b] = TRUE]
  ELSE [s EXCEPT !.ret = "nil"]

\* _close, after DebugFile.MustRelease has left s2: DebugFile is set to nil
\* and the error of file.Close is returned.
ObjCloseClear(s2, b, err) ==
  IF s2.panicked # "none" THEN s2
  ELSE [s2 EXCEPT !.debugFile[b] = 0, !.ret = err]

\* Mutant of ObjCloseDebug: Info.DebugFile is left alone.
ObjCloseDebugKept(s1, b, d) == s1

\* _close, Info.DebugFile d: released with MustRelease when it is not nil.
ObjCloseDebug(s1, b, d) ==
  IF d = 0 THEN s1 ELSE ObjCloseClear(MustRelease(s1, d), b, s1.ret)

\* Mutant of ObjClose: the closed flag is not looked at.
ObjCloseUnchecked(s, b) == ObjCloseDebug(ObjCloseFile(s, b), b, s.debugFile[b])

\* objectFile._close under objectFile.close's mutex.
ObjClose(s, b) ==
  IF s.objClosed[b]
  THEN [s EXCEPT !.ret = "ErrAlreadyClosed"]
  ELSE ObjCloseDebug(ObjCloseFile(s, b), b, s.debugFile[b])

\* ------------------------------------------------------------------- rc
Inc(n) == n + 1

\* Mutant of Dec: the decrement is forgotten.
DecForgotten(n) == n

Dec(n) == n - 1

\* A call of resource.closer by `who`.
CallCloser(s, b, who) ==
  LET s1 == [s EXCEPT !.closerCalls[b] = Append(@, who)] IN
  CASE s.closer[b] = "ok" -> [s1 EXCEPT !.ret = "nil"]
    [] s.closer[b] = "err" -> [s1 EXCEPT !.ret = "closerErr"]
    [] s.closer[b] = "objclose" -> ObjClose(s1, b)

\* Mutant of ResourceClose: closed is set whatever the closer returned.
ResourceCloseSetsClosed(s, b, who) ==
  IF s.closer[b] = "nil"
  THEN [s EXCEPT !.ret = "nil"]
  ELSE [CallCloser(s, b, who) EXCEPT !.resClosed[b] = TRUE]

\* resource.Close.
ResourceClose(s, b, who) ==
  IF s.closer[b] = "nil"
  THEN [s EXCEPT !.ret = "nil"]
  ELSE LET s1 == CallCloser(s, b, who) IN
       IF s1.ret # "nil" THEN s1 ELSE [s1 EXCEPT !.resClosed[b] = TRUE]

\* Mutant of SwapReleased: the swap is taken to succeed always.
SwapReleasedAlways(rel) == TRUE

\* released.CompareAndSwap(false, true) succeeds.
SwapReleased(rel) == rel = FALSE

\* The count at which Release closes the resource.
IsLastRelease(n) == n = 0

\* Reference.Release.
Release(s, h) ==
  IF ~SwapReleased(s.released[h])
  THEN [s EXCEPT !.ret = "ErrReleased"]
  ELSE LET b == s.resource[h]
           s1 == [s EXCEPT !.released[h] = TRUE, !.refCount[b] = Dec(@)]
       IN  IF IsLastRelease(s1.refCount[b])
           THEN ResourceClose(s1, b, h)
           ELSE [s1 EXCEPT !.ret = "nil"]

\* Reference.MustRelease: Release that panics on an error.
MustRelease(s, h) ==
  LET s1 == Release(s, h) IN
  IF s1.ret # "nil" THEN [s1 EXCEPT !.panicked = s1.ret] ELSE s1

\* Mutant of NewResource: the deferred Inc is forgotten.
NewResourceNoInc(s, b, c) ==
  [s EXCEPT !.refCount[b] = 0, !.resClosed[b] = FALSE, !.closer[b] = c]

\* newResource: the count starts at 0 and the deferred Inc makes it 1.
NewResource(s, b, c) ==
  [s EXCEPT !.refCount[b] = Inc(0), !.resClosed[b] = FALSE, !.closer[b] = c]

\* newReference: a fresh handle h over block b, its finalizer armed.
NewReference(s, b, h) ==
  [s EXCEPT !.resource[h] = b, !.released[h] = FALSE, !.ret = "nil", !.out = h]

\* rc.New.
New(s, c, h) ==
  LET b == Min(FreeBlocks(s)) IN NewReference(NewResource(s, b, c), b, h)

\* Mutant of CloneRefused: the released flag is not looked at.
CloneNeverRefused(rel) == FALSE

\* Clone refuses a handle whose released flag is set.
CloneRefused(rel) == rel

\* Mutant of Clone: the new handle is made without r.resource.Inc().
CloneWithoutInc(s, h) ==
  IF CloneRefused(s.released[h])
  THEN [s EXCEPT !.ret = "ErrReleased", !.out = 0]
  ELSE NewReference(s, s.resource[h], Min(FreeHandles(s)))

\* Reference.Clone.
Clone(s, h) ==
  IF CloneRefused(s.released[h])
  THEN [s EXCEPT !.ret = "ErrReleased", !.out = 0]
  ELSE LET b == s.resource[h] IN
       NewReference([s EXCEPT !.refCount[b] = Inc(@)], b, Min(FreeHandles(s)))

\* Reference.MustClone.
MustClone(s, h) ==
  LET s1 == Clone(s, h) IN
  IF s1.ret # "nil" THEN [s1 EXCEPT !.panicked = s1.ret] ELSE s1

\* Mutant of Value: the released flag is not looked at.
ValueUnchecked(s, h) ==
  IF s.resClosed[s.resource[h]]
  THEN [s EXCEPT !.panicked = "ErrAlreadyClosed", !.ret = "panic"]
  ELSE [s EXCEPT !.ret = "nil", !.out = s.resource[h]]

\* Reference.Value, then resource.Value.
Value(s, h) ==
  IF s.released[h]
  THEN [s EXCEPT !.panicked = "ErrReleased", !.ret = "panic"]
  ELSE IF s.resClosed[s.resource[h]]
       THEN [s EXCEPT !.panicked = "ErrAlreadyClosed", !.ret = "panic"]
       ELSE [s EXCEPT !.ret = "nil", !.out = s.resource[h]]

\* ----------------------------------------------------------------- pool
\* Pool.NewFile on the freshly opened descriptor f.  `fail` says which check
\* the file's content fails ("none": a well-formed ELF), `key` is the
\* build-id ("" when buildid.BuildID returned an error).
NewFile(s, f, fail, key) ==
  LET opened == [s EXCEPT !.fileState[f] = "open"] IN
  IF fail \in {"read", "notelf", "parse", "nosections", "rewind"}
  THEN [FileClose(opened, f) EXCEPT !.ret = fail, !.out = 0]
  ELSE IF opened.cache[key] # 0
  THEN LET s1 == FileClose(opened, f) IN
       IF s1.ret # "nil" THEN s1 ELSE MustClone(s1, s1.cache[key])
  ELSE IF fail = "stat"
  THEN [opened EXCEPT !.ret = "stat", !.out = 0]
  ELSE LET b == Min(FreeBlocks(opened))
           s1 == New([opened EXCEPT !.objFile[b] = f, !.objClosed[b] = FALSE],
                     "objclose", PoolHandle(b))
           ref == s1.out
           s2 == [s1 EXCEPT !.cache[key] = ref]
       IN  \* ref then goes out of scope: the cache holds a copy of *ref, not ref
           MustClone(s2, ref)

\* What NewFile needs of the model's finite pools of identifiers.
NewFileFits(s, fail, key) ==
  /\ FreeFiles(s) # {}
  /\ \/ fail \in {"read", "notelf", "parse", "nosections", "rewind"}
     \/ /\ s.cache[key] # 0
        /\ s.released[s.cache[key]] \/ FreeHandles(s) # {}
     \/ /\ s.cache[key] = 0
        /\ fail = "stat" \/ (FreeBlocks(s) # {} /\ FreeHandles(s) # {})

\* Pool.Get.
Get(s, key) ==
  IF s.cache[key] # 0
  THEN MustClone(s, s.cache[key])
  ELSE [s EXCEPT !.ret = "NotFound", !.out = 0]

\* Mutant of OnRemoval: the listener closes the entry instead of releasing
\* the cache's reference to it.
OnRemovalCloses(s, h) ==
  LET s1 == ResourceClose([s EXCEPT !.released[h] = TRUE], s.resource[h], h) IN
  IF s1.ret # "nil" THEN [s1 EXCEPT !.panicked = s1.ret] ELSE s1

\* The removal listener returned by onRemoval, called with the cached value.
OnRemoval(s, h) ==
  LET s1 == Release(s, h) IN
  IF s1.ret # "nil" THEN [s1 EXCEPT !.panicked = s1.ret] ELSE s1

\* Mutant of RemoveEntry: the listener is notified but the key stays.
RemoveEntryKeepsKey(s, k) == OnRemoval(s, s.cache[k])

\* The cache removes key k (expiry, or Close) and notifies the listener.
RemoveEntry(s, k) == OnRemoval([s EXCEPT !.cache[k] = 0], s.cache[k])

RECURSIVE RemoveAll(_, _)
RemoveAll(s, order) ==
  IF order = <<>> \/ s.panicked # "none"
  THEN s
  ELSE RemoveAll(RemoveEntry(s, Head(order)), Tail(order))

\* Pool.Close: the cache removes every entry, in the order `order`.
PoolClose(s, order) ==
  LET s1 == RemoveAll(s, order) IN
  [s1 EXCEPT !.poolClosed = TRUE, !.ret = "nil", !.out = 0]

CachedKeys(s) == {k \in Keys : s.cache[k] # 0}

\* The orders in which the cache can walk the keys of S.
Orders(S) ==
  {o \in [1..Cardinality(S) -> S] : \A i, j \in DOMAIN o : i # j => o[i] # o[j]}

\* ------------------------------------------------------------ finalizers
\* The finalizer newReference registers: Release, its result dropped.
ReferenceFinalizer(s, h) ==
  [Release(s, h) EXCEPT !.ret = "nil", !.out = 0]

\* The finalizer newResource registers: closer(), its result dropped.  A nil
\* closer is a nil function call.
ResourceFinalizer(s, b) ==
  IF s.closer[b] = "nil"
  THEN [s EXCEPT !.reclaimed[b] = TRUE, !.panicked = "nil closer"]
  ELSE [CallCloser(s, b, 0) EXCEPT !.reclaimed[b] = TRUE, !.ret = "nil", !.out = 0]

\* Block b can be unreachable: no Reference object over it need be left
\* (finalizers run in dependency order, so each handle over it was released,
\* by its holder or by its own finalizer, before its object went) and no
\* cached copy points to it.
Unreachable(s, b) ==
  /\ s.closer[b] # "unalloc"
  /\ ~s.reclaimed[b]
  /\ LiveHandlesOf(s, b) = {}
  /\ \A k \in Keys : CachedBlock(s, k) # b

\* --------------------------------------------------------------- actions
Running == panicked = "none"

CallNew(c) ==
  /\ Running
  /\ FreeBlocks(Cur) # {} /\ FreeHandles(Cur) # {}
  /\ Commit(New(Cur, c, Min(FreeHandles(Cur))))

CallClone(h) ==
  /\ Running
  /\ h \in UserHandles /\ resource[h] # 0
  /\ released[h] \/ FreeHandles(Cur) # {}
  /\ Commit(Clone(Cur, h))

CallRelease(h) ==
  /\ Running
  /\ h \in UserHandles /\ resource[h] # 0
  /\ Commit(Release(Cur, h))

CallValue(h) ==
  /\ Running
  /\ h \in UserHandles /\ resource[h] # 0
  /\ Commit(Value(Cur, h))

\* The garbage collector runs the finalizer of a Reference object nobody
\* points to any more: one its holder has let go of, or the one NewFile made
\* with rc.New and left behind.  On a released handle it changes nothing.
FinalizeReference(h) ==
  /\ Running
  /\ resource[h] # 0
  /\ Commit(ReferenceFinalizer(Cur, h))

FinalizeResource(b) ==
  /\ Running
  /\ Unreachable(Cur, b)
  /\ Commit(ResourceFinalizer(Cur, b))

CallNewFile(fail, key) ==
  /\ Running
  /\ ~poolClosed
  /\ NewFileFits(Cur, fail, key)
  /\ LET f == Min(FreeFiles(Cur)) IN Commit(NewFile(Cur, f, fail, key))

CallGet(key) ==
  /\ Running
  /\ ~poolClosed
  /\ IF cache[key] = 0 THEN TRUE ELSE released[cache[key]] \/ FreeHandles(Cur) # {}
  /\ Commit(Get(Cur, key))

\* The cache expires key k.
Evict(k) ==
  /\ Running
  /\ ~poolClosed
  /\ cache[k] # 0
  /\ Commit(RemoveEntry(Cur, k))

CallClose ==
  /\ Running
  /\ \E order \in Orders(CachedKeys(Cur)) :
       Commit(PoolClose(Cur, order))

\* What the holders of handles and the garbage collector do.
HandleStep ==
  \/ \E h \in Handles : CallClone(h)
  \/ \E h \in Handles : CallRelease(h)
  \/ \E h \in Handles : CallValue(h)
  \/ \E h \in Handles : FinalizeReference(h)
  \/ \E b \in Blocks : FinalizeResource(b)

\* A program that uses package rc directly.
Next ==
  \/ \E c \in ClientClosers : CallNew(c)
  \/ HandleStep

Spec == Init /\ [][Next]_vars

\* A program that gets its handles from a Pool.
NextPool ==
  \/ \E fail \in FailKinds, key \in Keys : CallNewFile(fail, key)
  \/ \E key \in Keys : CallGet(key)
  \/ \E k \in Keys : Evict(k)
  \/ CallClose
  \/ HandleStep

SpecPool == Init /\ [][NextPool]_vars

\* ------------------------------------------------- rc, concurrent callers
\* Threads call Clone and Release on handles they share; each call is cut
\* at its atomic operations on released and refCount.

\* The model has a handle left for one more call that makes one.
HandleLeft ==
  Cardinality(FreeHandles(Cur)) > Cardinality({u \in Threads : pc[u] = "clone_inc"})

\* rc.New, by a thread that is in no other call.
CallNewIdle(c) ==
  /\ HandleLeft
  /\ CallNew(c)

\* Clone: r.released.Load().  A refused call returns ErrReleased.
CloneLoad(t, h) ==
  /\ Running
  /\ pc[t] = "idle"
  /\ h \in UserHandles /\ resource[h] # 0
  /\ HandleLeft
  /\ IF CloneRefused(released[h])
     THEN UNCHANGED vars
     ELSE /\ pc' = [pc EXCEPT ![t] = "clone_inc"]
          /\ arg' = [arg EXCEPT ![t] = h]
          /\ UNCHANGED <<buildID, result, reOpened>>
          /\ CommitShared(Cur)

\* Clone: r.resource.Inc(), then newReference.
CloneInc(t) ==
  /\ Running
  /\ pc[t] = "clone_inc"
  /\ LET b == resource[arg[t]] IN
       CommitShared(NewReference([Cur EXCEPT !.refCount[b] = Inc(@)], b,
                                 Min(FreeHandles(Cur))))
  /\ pc' = [pc EXCEPT ![t] = "idle"]
  /\ arg' = [arg EXCEPT ![t] = 0]
  /\ UNCHANGED <<buildID, result, reOpened>>

\* Release: r.released.CompareAndSwap(false, true).  A refused call returns
\* ErrReleased.
ReleaseSwap(t, h) ==
  /\ Running
  /\ pc[t] = "idle"
  /\ h \in UserHandles /\ resource[h] # 0
  /\ IF ~SwapReleased(released[h])
     THEN UNCHANGED vars
     ELSE /\ CommitShared([Cur EXCEPT !.released[h] = TRUE])
          /\ pc' = [pc EXCEPT ![t] = "release_dec"]
          /\ arg' = [arg EXCEPT ![t] = h]
          /\ UNCHANGED <<buildID, result, reOpened>>

\* Release: r.resource.Dec() == 0.
ReleaseDec(t) ==
  /\ Running
  /\ pc[t] = "release_dec"
  /\ LET b == resource[arg[t]]
         s1 == [Cur EXCEPT !.refCount[b] = Dec(@)]
     IN  /\ CommitShared(s1)
         /\ UNCHANGED <<buildID, result, reOpened>>
         /\ IF IsLastRelease(s1.refCount[b])
            THEN pc' = [pc EXCEPT ![t] = "release_close"] /\ UNCHANGED arg
            ELSE pc' = [pc EXCEPT ![t] = "idle"] /\ arg' = [arg EXCEPT ![t] = 0]

\* Release: r.resource.Close(), under the resource's mutex.
ReleaseClose(t) ==
  /\ Running
  /\ pc[t] = "release_close"
  /\ CommitShared(ResourceClose(Cur, resource[arg[t]], arg[t]))
  /\ pc' = [pc EXCEPT ![t] = "idle"]
  /\ arg' = [arg EXCEPT ![t] = 0]
  /\ UNCHANGED <<buildID, result, reOpened>>

\* The block finalizer, once no thread is inside a call.
FinalizeResourceIdle(b) ==
  /\ \A t \in Threads : pc[t] = "idle"
  /\ FinalizeResource(b)

\* ------------------------------------------------- pool, files by content
\* elf.ELFMAG, "\177ELF", as bytes.
ELFMAG == <<127, 69, 76, 70>>

\* The bytes files are made of, and the files: every content of up to MaxLen
\* bytes.
Bytes == {69, 70, 76, 127}
Contents == UNION {[1..n -> Bytes] : n \in 0..MaxLen}

\* f.Read(header[:]) on a [4]byte of zeros: the bytes read, or io.EOF when
\* the file has none.
ReadHeader(content) ==
  IF Len(content) = 0
  THEN [n |-> 0, err |-> "EOF", header |-> <<0, 0, 0, 0>>]
  ELSE [n |-> IF Len(content) < 4 THEN Len(content) ELSE 4,
        err |-> "nil",
        header |-> [i \in 1..4 |-> IF i <= Len(content) THEN content[i] ELSE 0]]

\* Mutant of IsELF: only the first byte of the magic is compared.
IsELFFirstByte(content, seekOK) ==
  LET r == ReadHeader(content) IN
  IF r.err # "nil"
  THEN [ok |-> FALSE, err |-> "read"]
  ELSE [ok |-> r.header[1] = ELFMAG[1], err |-> IF seekOK THEN "nil" ELSE "seek"]

\* isELF: the magic test, and the deferred rewind whose error is joined to
\* the result (seekOK: the Seek succeeds).
IsELF(content, seekOK) ==
  LET r == ReadHeader(content) IN
  IF r.err # "nil"
  THEN [ok |-> FALSE, err |-> "read"]
  ELSE [ok |-> r.header = ELFMAG, err |-> IF seekOK THEN "nil" ELSE "seek"]

\* The check of NewFile that a file fails first: isELF's error, then the
\* magic, then what the rest of the file fails (`rest`).
FailOf(content, seekOK, rest) ==
  LET e == IsELF(content, seekOK) IN
  IF e.err # "nil" THEN "read"
  ELSE IF ~e.ok THEN "notelf"
  ELSE rest

\* Pool.Open of a file with the given content.
Open(s, f, content, seekOK, rest, k) ==
  NewFile(s, f, FailOf(content, seekOK, rest), k)

CallOpen(content, seekOK, rest, k) ==
  /\ Running
  /\ ~poolClosed
  /\ NewFileFits(Cur, FailOf(content, seekOK, rest), k)
  /\ LET s1 == Open(Cur, Min(FreeFiles(Cur)), content, seekOK, rest, k) IN
       /\ CommitShared(s1)
       /\ result' = s1.ret
  /\ UNCHANGED <<pc, arg, buildID, reOpened>>

\* A program that opens files through the pool and releases what it gets.
NextOpen ==
  \/ \E content \in Contents, seekOK \in BOOLEAN :
       \E rest \in (IF IsELF(content, seekOK).ok /\ seekOK
                     THEN FailKinds \ {"read", "notelf"} ELSE {"none"}),
          k \in (IF IsELF(content, seekOK).ok /\ seekOK THEN Keys ELSE {""}) :
         CallOpen(content, seekOK, rest, k)
  \/ \E k \in Keys : Evict(k)
  \/ \E h \in Handles : CallRelease(h)

SpecOpen == Init /\ [][NextOpen]_vars

\* ----------------------------------------------- pool, concurrent callers
\* The part of NewFile's miss path from f.Stat() on, run on the state s that
\* a later step finds.  Put replaces the value an earlier Put left under the
\* key; whether the cache tells the removal listener of a replaced value is
\* decided outside this repository, so both are modelled (notify).
NewFileInsert(s, f, k, notify) ==
  LET b == Min(FreeBlocks(s))
      s1 == New([s EXCEPT !.objFile[b] = f, !.objClosed[b] = FALSE],
                "objclose", PoolHandle(b))
      ref == s1.out
      old == s1.cache[k]
      s2 == [s1 EXCEPT !.cache[k] = ref]
      s3 == IF old # 0 /\ notify THEN OnRemoval(s2, old) ELSE s2
  IN  IF s3.panicked # "none" THEN s3 ELSE MustClone(s3, ref)

\* NewFile on a well-formed file up to p.c.GetIfPresent(buildID): a hit ends
\* the call with a clone, a miss goes on to make and insert an entry.
NewFileLookup(t, k) ==
  /\ Running
  /\ ~poolClosed
  /\ pc[t] = "idle"
  /\ FreeFiles(Cur) # {}
  /\ LET f == Min(FreeFiles(Cur)) IN
       IF cache[k] # 0
       THEN /\ released[cache[k]] \/ HandleLeft
            /\ Commit(NewFile(Cur, f, "none", k))
       ELSE /\ Cardinality(FreeBlocks(Cur)) >
                 Cardinality({u \in Threads : pc[u] = "newfile_put"})
            /\ Cardinality(FreeHandles(Cur)) >
                 Cardinality({u \in Threads : pc[u] = "newfile_put"})
            /\ CommitShared([Cur EXCEPT !.fileState[f] = "open"])
            /\ pc' = [pc EXCEPT ![t] = "newfile_put"]
            /\ arg' = [arg EXCEPT ![t] = f]
            /\ buildID' = [buildID EXCEPT ![t] = k]
            /\ UNCHANGED <<result, reOpened>>

\* NewFile after a miss: rc.New, p.c.Put(buildID, *ref), ref.MustClone().
NewFilePut(t, notify) ==
  /\ Running
  /\ pc[t] = "newfile_put"
  /\ CommitShared(NewFileInsert(Cur, arg[t], buildID[t], notify))
  /\ pc' = [pc EXCEPT ![t] = "idle"]
  /\ arg' = [arg EXCEPT ![t] = 0]
  /\ buildID' = [buildID EXCEPT ![t] = ""]
  /\ UNCHANGED <<result, reOpened>>

NextPoolRace ==
  \/ \E t \in Threads, k \in Keys : NewFileLookup(t, k)
  \/ \E t \in Threads, notify \in BOOLEAN : NewFilePut(t, notify)
  \/ \E k \in Keys : Evict(k)
  \/ \E h \in Handles : CallRelease(h)

SpecPoolRace == Init /\ [][NextPoolRace]_vars

NextRace ==
  \/ \E c \in ClientClosers : CallNewIdle(c)
  \/ \E t \in Threads, h \in Handles : CloneLoad(t, h)
  \/ \E t \in Threads : CloneInc(t)
  \/ \E t \in Threads, h \in Handles : ReleaseSwap(t, h)
  \/ \E t \in Threads : ReleaseDec(t)
  \/ \E t \in Threads : ReleaseClose(t)
  \/ \E b \in Blocks : FinalizeResourceIdle(b)

SpecRace == Init /\ [][NextRace]_vars

\* ------------------------------------------------ objectfile, the entries
\* How a reopen can end: "ok", or the step of it that fails.
ReopenKinds == {"ok", "open", "parse", "stat"}

\* Mutant of Rewind: the cursor is left where it is.
RewindNothing(s, f, seekOK) == [s EXCEPT !.ret = "nil"]

\* rewind: f.Seek(0, io.SeekStart).  seekOK: the system call succeeds.
Rewind(s, f, seekOK) ==
  IF s.fileState[f] # "open" THEN [s EXCEPT !.ret = "os.ErrClosed"]
  ELSE IF ~seekOK THEN [s EXCEPT !.ret = "seekErr"]
  ELSE [s EXCEPT !.cursor[f] = 0, !.ret = "nil"]

\* objectFile.reopen, f the descriptor os.Open returns.  o.closed is left as
\* it is.
Reopen(s, b, f, kind) ==
  CASE kind = "open" -> [s EXCEPT !.ret = "reopenErr"]
    [] kind \in {"parse", "stat"} ->
         [FileClose([s EXCEPT !.fileState[f] = "open"], f) EXCEPT !.ret = "reopenErr"]
    [] kind = "ok" ->
         [s EXCEPT !.fileState[f] = "open", !.cursor[f] = 0,
                   !.objFile[b] = f, !.ret = "nil"]

\* Mutant of Reader: the entry mutex is not taken.
ReaderNoLock(s, b, f, kind, seekOK) ==
  LET s1 == IF s.objClosed[b] THEN Reopen(s, b, f, kind) ELSE [s EXCEPT !.ret = "nil"]
  IN  IF s1.ret # "nil" THEN [s1 EXCEPT !.out = 0]
      ELSE LET s2 == Rewind(s1, s1.objFile[b], seekOK) IN
           IF s2.ret = "nil"
           THEN [s2 EXCEPT !.out = IF s.objClosed[b] THEN 1 ELSE 0]
           ELSE [s2 EXCEPT !.ret = "rewindErr", !.out = 0]

\* objectFile.Reader, from o.mtx.Lock() on.  ret = "nil": a reader and its
\* done function are returned, the mutex stays locked for them, out is the
\* reOpened flag done captures (1: true).  Every error return leaves without
\* o.mtx.Unlock().
Reader(s, b, f, kind, seekOK) ==
  LET locked == [s EXCEPT !.mtx[b] = TRUE]
      s1 == IF s.objClosed[b]
            THEN Reopen(locked, b, f, kind)
            ELSE [locked EXCEPT !.ret = "nil"]
  IN  IF s1.ret # "nil" THEN [s1 EXCEPT !.out = 0]
      ELSE LET s2 == Rewind(s1, s1.objFile[b], seekOK) IN
           IF s2.ret = "nil"
           THEN [s2 EXCEPT !.out = IF s.objClosed[b] THEN 1 ELSE 0]
           ELSE IF s2.ret = "os.ErrClosed"
           THEN [Reopen(s2, b, f, kind) EXCEPT !.ret = "rewindErr", !.out = 0]
           ELSE [s2 EXCEPT !.ret = "rewindErr", !.out = 0]

\* The done function Reader returned: rewind, then (deferred) _close when
\* the reader had reopened the file, then o.mtx.Unlock().
Done(s, b, re, seekOK) ==
  LET s1 == Rewind(s, s.objFile[b], seekOK)
      s2 == IF re THEN ObjClose(s1, b) ELSE [s1 EXCEPT !.ret = "nil"]
  IN  [s2 EXCEPT !.mtx[b] = FALSE,
                 !.ret = IF s1.ret # "nil" THEN "rewindErr" ELSE s2.ret,
                 !.out = 0]

\* objectFile.ELF: without the mutex when o.closed is false; else Lock,
\* reopen, (deferred) _close and Unlock.
ELF(s, b, f, kind) ==
  IF ~s.objClosed[b] THEN [s EXCEPT !.ret = "nil", !.out = b]
  ELSE LET s1 == Reopen(s, b, f, kind) IN
       IF s1.ret # "nil" THEN [s1 EXCEPT !.out = 0]
       ELSE [ObjClose(s1, b) EXCEPT !.out = b]

\* A reopen of kind `kind` has the descriptor it needs.
ReopenFits(s, b, kind) ==
  (s.objClosed[b] \/ s.fileState[s.objFile[b]] # "open") =>
    (kind = "open" \/ FreeFiles(s) # {})

\* The descriptor os.Open returns next.
NextFile(s) == IF FreeFiles(s) = {} THEN 0 ELSE Min(FreeFiles(s))

\* The entries NewFile has made.
Entries == {b \in Blocks : closer[b] = "objclose"}

\* The threads that hold a reader of entry b and have not called its done.
ReadersOf(b) == {t \in Threads : pc[t] = "reading" /\ arg[t] = b}

\* Releasing handle h invokes obj.close, which takes the entry's mutex.
WouldClose(h) ==
  /\ resource[h] # 0 /\ ~released[h]
  /\ refCount[resource[h]] = 1
  /\ closer[resource[h]] = "objclose"

ObjNewFile(k) ==
  /\ Cardinality(Entries) < MaxEntries
  /\ CallNewFile("none", k)

\* Release by the holder of a handle; a Release that closes the entry waits
\* for the entry's mutex.
ObjRelease(h) ==
  /\ WouldClose(h) => ~mtx[resource[h]]
  /\ CallRelease(h)

ObjEvict(k) ==
  /\ cache[k] # 0
  /\ WouldClose(cache[k]) => ~mtx[resource[cache[k]]]
  /\ Evict(k)

CallReader(t, b, kind, seekOK) ==
  /\ Running
  /\ pc[t] = "idle"
  /\ b \in Entries
  /\ ~mtx[b]
  /\ ReopenFits(Cur, b, kind)
  /\ LET s1 == Reader(Cur, b, NextFile(Cur), kind, seekOK) IN
       /\ CommitShared(s1)
       /\ IF s1.ret = "nil"
          THEN /\ pc' = [pc EXCEPT ![t] = "reading"]
               /\ arg' = [arg EXCEPT ![t] = b]
               /\ reOpened' = [reOpened EXCEPT ![t] = (s1.out = 1)]
          ELSE UNCHANGED <<pc, arg, reOpened>>
  /\ UNCHANGED <<buildID, result>>

\* Read and Seek on the reader move the cursor.
ReadSeek(t, n) ==
  /\ Running
  /\ pc[t] = "reading"
  /\ fileState[objFile[arg[t]]] = "open"
  /\ CommitShared([Cur EXCEPT !.cursor[objFile[arg[t]]] = n])
  /\ UNCHANGED <<pc, arg, buildID, result, reOpened>>

CallDone(t, seekOK) ==
  /\ Running
  /\ pc[t] = "reading"
  /\ CommitShared(Done(Cur, arg[t], reOpened[t], seekOK))
  /\ pc' = [pc EXCEPT ![t] = "idle"]
  /\ arg' = [arg EXCEPT ![t] = 0]
  /\ reOpened' = [reOpened EXCEPT ![t] = FALSE]
  /\ UNCHANGED <<buildID, result>>

\* Mutant of ELFLocks: ELF takes the mutex whatever o.closed is.
ELFLocksAlways(s, b) == TRUE

\* ELF goes through o.mtx.Lock() only when o.closed is set.
ELFLocks(s, b) == s.objClosed[b]

CallELF(t, b, kind) ==
  /\ Running
  /\ pc[t] = "idle"
  /\ b \in Entries
  /\ ELFLocks(Cur, b) => ~mtx[b]
  /\ objClosed[b] => ReopenFits(Cur, b, kind)
  /\ Commit(ELF(Cur, b, NextFile(Cur), kind))

\* Threads that use the entries of a pool.
NextObj ==
  \/ \E k \in Keys : ObjNewFile(k)
  \/ \E h \in Handles : ObjRelease(h)
  \/ \E k \in Keys : ObjEvict(k)
  \/ \E t \in Threads, b \in Blocks, kind \in ReopenKinds, seekOK \in BOOLEAN :
       CallReader(t, b, kind, seekOK)
  \/ \E t \in Threads, n \in 0..MaxOffset : ReadSeek(t, n)
  \/ \E t \in Threads, seekOK \in BOOLEAN : CallDone(t, seekOK)
  \/ \E t \in Threads, b \in Blocks, kind \in ReopenKinds : CallELF(t, b, kind)

SpecObj == Init /\ [][NextObj]_vars

\* ----------------------------- objectfile, a descriptor closed by its owner
\* The caller of NewFile(f) still holds f, and closes it: the entry's
\* descriptor is closed while o.closed is false.
CallerClosesFile(b) ==
  /\ Running
  /\ b \in Entries
  /\ ~objClosed[b] /\ ~mtx[b]
  /\ fileState[objFile[b]] = "open"
  /\ Commit(FileClose(Cur, objFile[b]))

NextStale ==
  \/ NextObj
  \/ \E b \in Blocks : CallerClosesFile(b)

SpecStale == Init /\ [][NextStale]_vars

\* ------------------------------------ objectfile, waiting for the mutex
\* A thread calls Reader on entry b: it is at o.mtx.Lock().
BeginReader(t, b) ==
  /\ Running
  /\ pc[t] = "idle"
  /\ b \in Entries
  /\ CommitShared(Cur)
  /\ pc' = [pc EXCEPT ![t] = "locking"]
  /\ arg' = [arg EXCEPT ![t] = b]
  /\ UNCHANGED <<buildID, result, reOpened>>

\* The thread gets the mutex and runs the rest of Reader.
LockReader(t, kind, seekOK) ==
  /\ Running
  /\ pc[t] = "locking"
  /\ ~mtx[arg[t]]
  /\ ReopenFits(Cur, arg[t], kind)
  /\ LET s1 == Reader(Cur, arg[t], NextFile(Cur), kind, seekOK) IN
       /\ CommitShared(s1)
       /\ IF s1.ret = "nil"
          THEN /\ pc' = [pc EXCEPT ![t] = "reading"]
               /\ reOpened' = [reOpened EXCEPT ![t] = (s1.out = 1)]
               /\ UNCHANGED arg
          ELSE /\ pc' = [pc EXCEPT ![t] = "idle"]
               /\ arg' = [arg EXCEPT ![t] = 0]
               /\ UNCHANGED reOpened
  /\ UNCHANGED <<buildID, result>>

NextLive ==
  \/ \E k \in Keys : ObjNewFile(k)
  \/ \E h \in Handles : ObjRelease(h)
  \/ \E k \in Keys : ObjEvict(k)
  \/ \E t \in Threads, b \in Blocks : BeginReader(t, b)
  \/ \E t \in Threads, kind \in ReopenKinds, seekOK \in BOOLEAN :
       LockReader(t, kind, seekOK)
  \/ \E t \in Threads, n \in 0..MaxOffset : ReadSeek(t, n)
  \/ \E t \in Threads, seekOK \in BOOLEAN : CallDone(t, seekOK)

\* Every holder of a reader calls its done function, and sync.Mutex hands
\* the lock to a waiter that can take it again and again.
FairLive ==
  /\ \A t \in Threads : WF_vars(\E seekOK \in BOOLEAN : CallDone(t, seekOK))
  /\ \A t \in Threads :
       SF_vars(\E kind \in ReopenKinds, seekOK \in BOOLEAN :
                 LockReader(t, kind, seekOK))

SpecLive == Init /\ [][NextLive]_vars /\ FairLive

\* ------------------------------------- objectfile, entries with DebugFile
\* The handles stored in some entry's Info.DebugFile.
DebugHandles == {debugFile[b] : b \in Blocks} \ {0}

DebugNewFile(k) ==
  /\ Cardinality(Entries) < MaxEntries + 1
  /\ CallNewFile("none", k)

\* A holder of entry b stores in its Info.DebugFile the reference h it holds
\* to the entry of the file with b's debug information; the reference is
\* the entry's from then on.
SetDebugFile(b, h) ==
  /\ Running
  /\ b \in Entries /\ ~resClosed[b] /\ debugFile[b] = 0
  /\ \E hb \in UserHandles : resource[hb] = b /\ ~released[hb]
  /\ h \in UserHandles \ DebugHandles
  /\ resource[h] \in Entries \ {b} /\ ~released[h]
  /\ debugFile[resource[h]] = 0
  /\ Commit([Cur EXCEPT !.debugFile[b] = h])

DebugRelease(h) ==
  /\ h \notin DebugHandles
  /\ CallRelease(h)

DebugFinalizeReference(h) ==
  /\ h \notin DebugHandles
  /\ FinalizeReference(h)

NextDebug ==
  \/ \E k \in Keys : DebugNewFile(k)
  \/ \E b \in Blocks, h \in Handles : SetDebugFile(b, h)
  \/ \E h \in Handles : DebugRelease(h)
  \/ \E h \in Handles : DebugFinalizeReference(h)
  \/ \E k \in Keys : Evict(k)
  \/ \E b \in Blocks : FinalizeResource(b)

SpecDebug == Init /\ [][NextDebug]_vars

\* ------------------------- objectfile, readers of entries with DebugFile
\* A Release of h that closes its entry gets the mutexes close() takes: the
\* entry's, and that of the DebugFile's entry when it is closed with it.
MutexesFree(h) ==
  WouldClose(h) =>
    LET b == resource[h] IN
    /\ ~mtx[b]
    /\ (debugFile[b] # 0 /\ refCount[resource[debugFile[b]]] = 1) =>
         ~mtx[resource[debugFile[b]]]

DebugObjRelease(h) ==
  /\ h \notin DebugHandles
  /\ MutexesFree(h)
  /\ CallRelease(h)

DebugObjEvict(k) ==
  /\ cache[k] # 0
  /\ MutexesFree(cache[k])
  /\ Evict(k)

DebugObjFinalize(b) ==
  /\ ~mtx[b]
  /\ FinalizeResource(b)

NextDebugObj ==
  \/ \E k \in Keys : DebugNewFile(k)
  \/ \E b \in Blocks, h \in Handles : SetDebugFile(b, h)
  \/ \E h \in Handles : DebugObjRelease(h)
  \/ \E k \in Keys : DebugObjEvict(k)
  \/ \E b \in Blocks : DebugObjFinalize(b)
  \/ \E t \in Threads, b \in Blocks, kind \in ReopenKinds, seekOK \in BOOLEAN :
       CallReader(t, b, kind, seekOK)
  \/ \E t \in Threads, seekOK \in BOOLEAN : CallDone(t, seekOK)
  \/ \E t \in Threads, b \in Blocks, kind \in ReopenKinds : CallELF(t, b, kind)

SpecDebugObj == Init /\ [][NextDebugObj]_vars

\* ---------------------------------------------------------------- cgroup
\* Strings are sequences of tokens, so that prefix and substring tests are
\* computed: "/system.slice/a" is <<"/", "system.slice", "/", "a">>.
ControllerNames == {<<"cpu">>, <<"memory">>, <<"name=", "systemd">>}
CgroupPaths ==
  {<<"/">>, <<"/", "system.slice", "/", "a">>, <<"/", "user.slice", "/", "a">>}

SeqsUpTo(S, n) == UNION {[1..k -> S] : k \in 0..n}

\* procfs.Cgroup, the fields FindFirstCPU reads.
Cgroup == [Controllers : SeqsUpTo(ControllerNames, MaxControllers),
           Path : CgroupPaths]
CgroupLists == SeqsUpTo(Cgroup, MaxCgroups)

\* procfs.Cgroup{}
EmptyCgroup == [Controllers |-> <<>>, Path |-> <<>>]

\* strings.HasPrefix
HasPrefix(str, prefix) ==
  Len(str) >= Len(prefix) /\ SubSeq(str, 1, Len(prefix)) = prefix

\* strings.Contains
Contains(str, sub) ==
  \E i \in 1..(Len(str) + 1) :
    i + Len(sub) - 1 <= Len(str) /\ SubSeq(str, i, i + Len(sub) - 1) = sub

\* One round of FindFirstCPU's loop: does it return cg?
Returned(cg) ==
  \/ \E i \in 1..Len(cg.Controllers) : cg.Controllers[i] = <<"cpu">>
  \/ HasPrefix(cg.Path, <<"/", "system.slice", "/">>)
  \/ HasPrefix(cg.Path, <<"/", "user.slice", "/">>)
  \/ \E i \in 1..Len(cg.Controllers) : Contains(cg.Controllers[i], <<"systemd">>)

RECURSIVE FirstFrom(_, _)
FirstFrom(cgs, i) ==
  IF i > Len(cgs) THEN EmptyCgroup
  ELSE IF Returned(cgs[i]) THEN cgs[i]
  ELSE FirstFrom(cgs, i + 1)

FindFirstCPU(cgs) == IF Len(cgs) = 1 THEN cgs[1] ELSE FirstFrom(cgs, 1)

\* A caller passes the cgroups it read for a process to FindFirstCPU.
CallFindFirstCPU ==
  /\ found = <<>>
  /\ found' = <<FindFirstCPU(cgroups)>>
  /\ UNCHANGED <<refCount, resClosed, closer, closerCalls, reclaimed, resource,
                 released, cache, poolClosed, objFile, objClosed, fileState,
                 fileCloses, panicked, mtx, cursor, pc, arg, buildID, result,
                 reOpened, debugFile, cgroups>>

InitCgroup == InitProgram /\ cgroups \in CgroupLists /\ found = <<>>

NextCgroup == CallFindFirstCPU

SpecCgroup == InitCgroup /\ [][NextCgroup]_vars

\* ------------------------------------------------------------ type check
TypeOK ==
  /\ refCount \in [Blocks -> Int]
  /\ resClosed \in [Blocks -> BOOLEAN]
  /\ closer \in [Blocks -> {"unalloc", "objclose"} \cup ClientClosers]
  /\ reclaimed \in [Blocks -> BOOLEAN]
  /\ resource \in [Handles -> Blocks \cup {0}]
  /\ released \in [Handles -> BOOLEAN]
  /\ cache \in [Keys -> Handles \cup {0}]
  /\ poolClosed \in BOOLEAN
  /\ objFile \in [Blocks -> Files \cup {0}]
  /\ objClosed \in [Blocks -> BOOLEAN]
  /\ fileState \in [Files -> {"unopened", "open", "closed"}]
  /\ pc \in [Threads -> STRING]
  /\ arg \in [Threads -> Nat]
  /\ buildID \in [Threads -> Keys]
  /\ result \in STRING
  /\ mtx \in [Blocks -> BOOLEAN]
  /\ cursor \in [Files -> 0..MaxOffset]
  /\ reOpened \in [Threads -> BOOLEAN]
  /\ debugFile \in [Blocks -> Handles \cup {0}]
  /\ cgroups \in CgroupLists
  /\ found \in SeqsUpTo(Cgroup \cup {EmptyCgroup}, 1)

\* ---------------------------------------------------------------- claims
Allocated(h) == resource[h] # 0

\* The blocks NewFile made.
PoolBlocks == {b \in Blocks : closer[b] = "objclose"}
IsCached(b) == \E k \in Keys : CachedBlock(Cur, k) = b

\* C1: for a block made by rc.New with a closer and cloned N times, no
\* Release invokes the closer while a handle of the block is unreleased, the
\* Release of the last unreleased handle invokes it, and once all N+1 handles
\* are released the closer has been invoked exactly once: by that last
\* Release.
C1_CloserOnceByLastRelease ==
  \A b \in Blocks :
    closer[b] \in {"ok", "err"} =>
      /\ LiveHandlesOf(Cur, b) # {} => closerCalls[b] = <<>>
      /\ LiveHandlesOf(Cur, b) = {} =>
           \E h \in HandlesOf(Cur, b) : closerCalls[b] = <<h>>
      /\ \A h \in LiveHandlesOf(Cur, b) :
           Running => Release(Cur, h).closerCalls[b] =
             IF LiveHandlesOf(Cur, b) = {h} THEN <<h>> ELSE <<>>

\* C2: the first Release of a handle returns nil, sets released and takes
\* one off refCount; every later Release of it, in whatever state, returns
\* ErrReleased and changes nothing (no count, no closer call, no descriptor
\* close); no descriptor is ever closed twice.
C2_ReleaseOnlyOnce ==
  /\ \A h \in Handles :
       (Running /\ Allocated(h)) =>
         LET b == resource[h]
             s1 == Release(Cur, h)
             s2 == Release(s1, h)
         IN  /\ ~released[h] =>
                  /\ s1.ret = "nil"
                  /\ s1.released[h]
                  /\ s1.refCount[b] = refCount[b] - 1
             /\ released[h] => s1 = [Cur EXCEPT !.ret = "ErrReleased"]
             /\ s2 = [s1 EXCEPT !.ret = "ErrReleased"]
  /\ \A f \in Files : fileCloses[f] <= 1

\* A released handle obtained from the pool whose block another handle keeps
\* open: a second decrement would close the descriptor under that handle.
C2_Witness ==
  \E h \in UserHandles :
    /\ Allocated(h) /\ released[h]
    /\ refCount[resource[h]] = 1
    /\ fileState[objFile[resource[h]]] = "open"

C5_HitReturnsClone ==
  \A k \in Keys :
    (Running /\ ~poolClosed /\ cache[k] # 0 /\ NewFileFits(Cur, "none", k)) =>
      LET f == Min(FreeFiles(Cur))
          b == CachedBlock(Cur, k)
          s1 == NewFile(Cur, f, "none", k)
      IN  /\ s1.fileState[f] = "closed"
          /\ s1.cache = cache
          /\ s1.panicked = "none"
          /\ s1.ret = "nil"
          /\ s1.out # 0 /\ s1.out # cache[k]
          /\ s1.resource[s1.out] = b
          /\ s1.refCount[b] = refCount[b] + 1

\* C6: a NewFile call that misses the cache and succeeds leaves the new
\* block with refCount 2 and exactly two unreleased handles: the one in the
\* cache under the build-id and the one returned.
C6_MissLeavesTwoReferences ==
  \A k \in Keys :
    (Running /\ ~poolClosed /\ cache[k] = 0 /\ NewFileFits(Cur, "none", k)) =>
      LET f == Min(FreeFiles(Cur))
          s1 == NewFile(Cur, f, "none", k)
          b == s1.resource[s1.out]
      IN  /\ s1.ret = "nil" /\ s1.panicked = "none"
          /\ closer[b] = "unalloc" /\ s1.closer[b] = "objclose"
          /\ s1.objFile[b] = f /\ s1.fileState[f] = "open"
          /\ s1.refCount[b] = 2
          /\ s1.cache[k] # 0 /\ s1.cache[k] # s1.out
          /\ LiveHandlesOf(s1, b) = {s1.cache[k], s1.out}
          /\ HandlesOf(s1, b) = {s1.cache[k], s1.out}

\* The state a missing NewFile leaves: a cached block with refCount 2, its
\* pool handle and one other handle unreleased.
C6_Witness ==
  \E k \in Keys, b \in PoolBlocks :
    /\ CachedBlock(Cur, k) = b
    /\ refCount[b] = 2
    /\ \E h \in UserHandles : LiveHandlesOf(Cur, b) = {cache[k], h}
    /\ fileState[objFile[b]] = "open"

\* C7: Pool.Close, whatever the order in which the cache walks its keys,
\* does not panic and returns nil; every cached reference was unreleased
\* before it and is released after it, the cache is empty, and every entry
\* left without unreleased reference has had its closer invoked and its
\* descriptor closed.
C7_CloseReleasesEveryEntry ==
  \A order \in Orders(CachedKeys(Cur)) :
    Running =>
    LET s1 == PoolClose(Cur, order) IN
      /\ s1.panicked = "none" /\ s1.ret = "nil"
      /\ CachedKeys(s1) = {}
      /\ \A k \in CachedKeys(Cur) :
           LET b == CachedBlock(Cur, k) IN
             /\ ~released[cache[k]] /\ s1.released[cache[k]]
             /\ s1.refCount[b] = refCount[b] - 1
             /\ LiveHandlesOf(s1, b) = {} =>
                  (s1.closerCalls[b] # <<>> /\ s1.fileState[objFile[b]] = "closed")

\* C8: while an entry is cached and the callers have released every
\* reference they got from Open, the entry stays open: refCount is 1, the
\* closer has not been invoked, the descriptor is open; a further NewFile
\* with the same build-id returns a reference whose Release returns nil, and
\* Pool.Close releases the pool reference without panic.
C8_CachedEntryStaysOpen ==
  \A k \in Keys :
    LET b == CachedBlock(Cur, k) IN
      (Running /\ cache[k] # 0 /\ LiveHandlesOf(Cur, b) \cap UserHandles = {}) =>
        /\ refCount[b] = 1
        /\ closerCalls[b] = <<>>
        /\ fileState[objFile[b]] = "open"
        /\ (~poolClosed /\ NewFileFits(Cur, "none", k)) =>
             LET s1 == NewFile(Cur, Min(FreeFiles(Cur)), "none", k) IN
               /\ s1.panicked = "none" /\ s1.ret = "nil"
               /\ Release(s1, s1.out).ret = "nil"
        /\ \A order \in Orders(CachedKeys(Cur)) :
             PoolClose(Cur, order).panicked = "none"

\* C9: for an unreleased handle r, Clone then Release of the clone leaves r
\* unreleased, refCount as before the Clone and the closer not invoked,
\* Value(r) returns the value and Release(r) is not refused; and releasing r
\* instead leaves the clone in the same position.
C9_CloneReleaseLeavesOriginalValid ==
  \A r \in UserHandles :
    (Running /\ Allocated(r) /\ ~released[r] /\ FreeHandles(Cur) # {}) =>
      LET b == resource[r]
          s1 == Clone(Cur, r)
          c == s1.out
          s2 == Release(s1, c)
          s3 == Release(s1, r)
      IN  /\ s1.ret = "nil" /\ c # r /\ s2.ret = "nil" /\ s3.ret = "nil"
          /\ ~s2.released[r] /\ s2.released[c]
          /\ s2.refCount[b] = refCount[b]
          /\ s2.closerCalls[b] = <<>> /\ ~s2.resClosed[b]
          /\ Value(s2, r).ret = "nil" /\ Value(s2, r).out = b
          /\ Release(s2, r).ret # "ErrReleased" /\ Release(s2, r).released[r]
          /\ ~s3.released[c] /\ s3.released[r]
          /\ s3.refCount[b] = refCount[b]
          /\ s3.closerCalls[b] = <<>> /\ ~s3.resClosed[b]
          /\ Value(s3, c).ret = "nil" /\ Value(s3, c).out = b
          /\ Release(s3, c).ret # "ErrReleased" /\ Release(s3, c).released[c]

\* A handle whose clone has been released while it is itself the only
\* unreleased handle of its block.
C9_Witness ==
  \E r \in UserHandles, c \in UserHandles :
    /\ r < c /\ Allocated(r) /\ resource[c] = resource[r]
    /\ ~released[r] /\ released[c]
    /\ refCount[resource[r]] = 1
    /\ closerCalls[resource[r]] = <<>>

\* C10: Clone on a released handle returns ErrReleased and no handle, and
\* changes nothing: no handle is allocated, no refCount moves.
C10_CloneAfterReleaseFails ==
  \A h \in UserHandles :
    (Running /\ Allocated(h) /\ released[h]) =>
      Clone(Cur, h) = [Cur EXCEPT !.ret = "ErrReleased", !.out = 0]

\* A released handle over a block that another handle keeps open, with room
\* for a new handle.
C10_Witness ==
  \E h \in UserHandles :
    /\ Allocated(h) /\ released[h]
    /\ refCount[resource[h]] >= 1
    /\ FreeHandles(Cur) # {}

\* C11: Value on a released handle panics with ErrReleased and returns no
\* value; Value on an unreleased handle of a block whose closer has not been
\* invoked returns the block's value and does not panic.
C11_ValueOnReleasedPanics ==
  \A h \in UserHandles :
    (Running /\ Allocated(h)) =>
      LET v == Value(Cur, h) IN
        /\ released[h] =>
             (v.panicked = "ErrReleased" /\ v.ret = "panic" /\ v.out = 0)
        /\ (~released[h] /\ closerCalls[resource[h]] = <<>>) =>
             (v.panicked = "none" /\ v.ret = "nil" /\ v.out = resource[h])

\* Value has been called on a released handle and has ended the process.
C11_Witness ==
  /\ panicked = "ErrReleased"
  /\ \E h \in UserHandles : Allocated(h) /\ released[h]

\* The invocations of the closer of block b made by Release calls (0 marks
\* the one the block finalizer makes).
ByRelease(calls) == SelectSeq(calls, LAMBDA w : w # 0)

\* C12: no Clone call returns a handle over a block whose closer has already
\* been invoked, also when it runs concurrently with Release on the same
\* handle, the last unreleased one of the block.
C12_NoResurrection ==
  [][\A t \in Threads :
       (pc[t] = "clone_inc" /\ pc'[t] = "idle") =>
         closerCalls'[resource[arg[t]]] = <<>>]_vars

\* C13: under every interleaving of concurrent Clone and Release calls on
\* the handles of one block, Release calls invoke the closer at most once,
\* and the call that invokes it is the Release that brought refCount to zero.
C13_CloserAtMostOnce ==
  [][\A b \in Blocks :
       (closerCalls'[b] # closerCalls[b]
          /\ closerCalls'[b][Len(closerCalls'[b])] # 0) =>
         /\ ByRelease(closerCalls[b]) = <<>>
         /\ \E t \in Threads :
              /\ pc[t] = "release_close" /\ pc'[t] = "idle"
              /\ resource[arg[t]] = b]_vars

\* C14: when NewFile calls run concurrently for one build-id that is not
\* cached, the get-or-insert is atomic: the step that inserts an entry for
\* the build-id finds no entry that another call inserted for it since its
\* own lookup (so the references returned for the build-id share one block),
\* and it leaves no block whose pool reference is unreleased and outside the
\* cache, where no removal callback will release it.
C14_GetOrInsertAtomic ==
  [][\A t \in Threads :
       (pc[t] = "newfile_put" /\ pc'[t] = "idle") =>
         /\ cache[buildID[t]] = 0
         /\ \A b \in Blocks :
              (closer'[b] = "objclose" /\ ~released'[PoolHandle(b)]) =>
                \E k \in Keys : cache'[k] = PoolHandle(b)]_vars

\* C15: Pool.Get on a key of the cache returns a new handle over the cached
\* block, whose refCount grows by one, and leaves the cache as it is; on a key
\* that is not in the cache it returns a not-found error and changes nothing.
C15_GetReturnsClone ==
  \A k \in Keys :
    (Running /\ ~poolClosed) =>
      LET s1 == Get(Cur, k) IN
        /\ cache[k] = 0 => s1 = [Cur EXCEPT !.ret = "NotFound", !.out = 0]
        /\ (cache[k] # 0 /\ FreeHandles(Cur) # {}) =>
             LET b == CachedBlock(Cur, k) IN
               /\ s1.panicked = "none" /\ s1.ret = "nil"
               /\ s1.out # 0 /\ s1.out # cache[k]
               /\ s1.resource[s1.out] = b /\ ~s1.released[s1.out]
               /\ s1.refCount[b] = refCount[b] + 1
               /\ s1.cache = cache

\* The files NewFile is given in C16 and C17: their reads and seeks succeed.
NotELF(content) == Len(content) >= 4 /\ SubSeq(content, 1, 4) # ELFMAG

\* C16: NewFile on a file whose first four bytes are not the ELF magic returns
\* the unrecognized-format error and no reference, has closed the descriptor
\* (once), and leaves the cache and every block and handle as they were.
C16_NotELFRejected ==
  \A content \in Contents :
    (Running /\ ~poolClosed /\ FreeFiles(Cur) # {} /\ NotELF(content)) =>
      LET f == Min(FreeFiles(Cur))
          s1 == Open(Cur, f, content, TRUE, "none", "a")
      IN  s1 = [Cur EXCEPT !.ret = "notelf", !.out = 0,
                           !.fileState[f] = "closed", !.fileCloses[f] = 1]

\* An Open has returned the unrecognized-format error.
C16_Witness ==
  /\ result = "notelf"
  /\ \E f \in Files : fileState[f] = "closed" /\ fileCloses[f] = 1

\* C17: opening a file from which fewer than four bytes can be read, a
\* zero-length file included, returns the same unrecognized-format error as
\* any other non-ELF input.
C17_ShortFileUnrecognized ==
  \A content \in Contents :
    (Running /\ ~poolClosed /\ FreeFiles(Cur) # {} /\ Len(content) < 4) =>
      Open(Cur, Min(FreeFiles(Cur)), content, TRUE, "none", "a").ret = "notelf"

\* C18: readers of one entry are mutually exclusive: while a thread holds a
\* reader whose done function it has not called, no other thread holds a
\* reader of the entry, the entry's mutex is locked, a further Reader call and
\* close wait for it, and the descriptor the reader reads is open.
C18_ReadersExclusive ==
  \A b \in Entries :
    ReadersOf(b) # {} =>
      /\ Cardinality(ReadersOf(b)) = 1
      /\ mtx[b]
      /\ fileState[objFile[b]] = "open"
      /\ \A t \in Threads, kind \in ReopenKinds, seekOK \in BOOLEAN :
           ~ENABLED CallReader(t, b, kind, seekOK)
      /\ \A h \in Handles : WouldClose(h) /\ resource[h] = b => ~ENABLED ObjRelease(h)

\* A thread holds a reader of an entry whose last reference is still to be
\* released: the Release that will call close has to wait for done.
C18_Witness ==
  \E b \in Entries :
    /\ ReadersOf(b) # {}
    /\ \E h \in Handles : WouldClose(h) /\ resource[h] = b

\* C19: whatever the previous reader did with the cursor and however its
\* done function ended, the next Reader call that succeeds returns with the
\* cursor of the entry's file at offset 0.
C19_ReaderStartsAtZero ==
  \A b \in Entries, kind \in ReopenKinds, seekOK \in BOOLEAN :
    (Running /\ ~mtx[b] /\ ReopenFits(Cur, b, kind)) =>
      LET s1 == Reader(Cur, b, NextFile(Cur), kind, seekOK) IN
        s1.ret = "nil" =>
          (s1.fileState[s1.objFile[b]] = "open" /\ s1.cursor[s1.objFile[b]] = 0)

\* An entry between two readers whose cursor the previous reader left away
\* from 0 (its done function could not rewind).
C19_Witness ==
  \E b \in Entries :
    /\ ~mtx[b] /\ ~objClosed[b]
    /\ fileState[objFile[b]] = "open"
    /\ cursor[objFile[b]] # 0

\* C20: Reader on an entry in the closed state whose reopen succeeds returns
\* a done function that returns nil, closes the descriptor the reopen opened
\* and leaves the entry closed, with no open descriptor and its mutex free.
C20_DoneClosesReopened ==
  \A b \in Entries :
    (Running /\ objClosed[b] /\ ~mtx[b] /\ FreeFiles(Cur) # {}) =>
      LET f == NextFile(Cur)
          s1 == Reader(Cur, b, f, "ok", TRUE)
          s2 == Done(s1, b, s1.out = 1, TRUE)
      IN  /\ s1.ret = "nil" /\ s1.objFile[b] = f /\ s1.out = 1
          /\ s2.ret = "nil"
          /\ s2.fileState[f] = "closed"
          /\ s2.objClosed[b]
          /\ ~s2.mtx[b]

\* C21: ELF on an entry in the closed state whose file can be reopened
\* returns the ELF view and a nil error, and has closed the descriptor it
\* reopened: the entry is closed again, with no open descriptor and its mutex
\* free.
C21_ELFRecloses ==
  \A b \in Entries :
    (Running /\ objClosed[b] /\ ~mtx[b] /\ FreeFiles(Cur) # {}) =>
      LET f == NextFile(Cur)
          s1 == ELF(Cur, b, f, "ok")
      IN  /\ s1.out = b
          /\ s1.ret = "nil"
          /\ s1.fileState[f] = "closed"
          /\ s1.fileState[s1.objFile[b]] # "open"
          /\ s1.objClosed[b]
          /\ ~s1.mtx[b]

\* C23: an error that Release returns inside the removal callback, on
\* eviction or on Pool.Close, is swallowed: the process is not aborted, the
\* key is removed, and Get on the other keys does what it did before.
C23_RemovalErrorsSwallowed ==
  /\ \A k \in Keys :
       (Running /\ cache[k] # 0) =>
         LET s1 == RemoveEntry(Cur, k) IN
           /\ s1.panicked = "none"
           /\ s1.cache[k] = 0
           /\ \A k2 \in Keys \ {k} :
                (cache[k2] = 0 \/ FreeHandles(Cur) # {}) =>
                  /\ Get(s1, k2).ret = Get(Cur, k2).ret
                  /\ Get(s1, k2).panicked = Get(Cur, k2).panicked
  /\ \A order \in Orders(CachedKeys(Cur)) :
       Running =>
         (PoolClose(Cur, order).panicked = "none"
            /\ CachedKeys(PoolClose(Cur, order)) = {})

C25_NoBuildIDStillCached ==
  (Running /\ ~poolClosed /\ NewFileFits(Cur, "none", "")) =>
    LET f == Min(FreeFiles(Cur))
        s1 == NewFile(Cur, f, "none", "")
        b == s1.resource[s1.out]
    IN  /\ s1.ret = "nil" /\ s1.panicked = "none"
        /\ s1.out # 0 /\ ~s1.released[s1.out]
        /\ s1.cache[""] # 0 /\ s1.resource[s1.cache[""]] = b
        /\ s1.objFile[b] = f /\ s1.fileState[f] = "open"
        /\ Value(s1, s1.out).ret = "nil" /\ Value(s1, s1.out).out = b

\* The positions of the cgroups that have the "cpu" controller.
WithCPU(cgs) ==
  {i \in 1..Len(cgs) :
     \E j \in 1..Len(cgs[i].Controllers) : cgs[i].Controllers[j] = <<"cpu">>}

\* C26: FindFirstCPU returns the single cgroup of a one-element list; for a
\* longer list in which some cgroup has the "cpu" controller it returns the
\* first such cgroup in list order, whatever cgroups precede it.
C26_FirstCPUCgroup ==
  found # <<>> =>
    /\ Len(cgroups) = 1 => found[1] = cgroups[1]
    /\ (Len(cgroups) > 1 /\ WithCPU(cgroups) # {}) =>
         found[1] = cgroups[Min(WithCPU(cgroups))]

\* C27: the count of a block is never negative, and once the Release that
\* brings it to zero has returned, the block's closed flag is set, whatever
\* its closer: a nil one and one that returns an error included.
C27_ClosedAtZero ==
  /\ \A b \in Blocks : refCount[b] >= 0
  /\ \A h \in Handles :
       (Running /\ Allocated(h) /\ ~released[h] /\ refCount[resource[h]] = 1) =>
         LET s1 == Release(Cur, h) IN
           /\ s1.refCount[resource[h]] = 0
           /\ s1.resClosed[resource[h]]

\* C28: the Release that brings the count to zero returns the error its
\* closer returned and leaves the closed flag unset; the flag is set only by
\* a closer that succeeded; a Release that leaves the count above zero
\* returns nil, invokes no closer and sets no flag.
C28_CloserErrorPropagates ==
  \A h \in Handles :
    (Running /\ Allocated(h) /\ ~released[h]) =>
      LET b == resource[h]
          s1 == Release(Cur, h)
      IN  IF refCount[b] = 1
          THEN /\ closer[b] = "err" =>
                    /\ s1.ret = "closerErr"
                    /\ ~s1.resClosed[b]
                    /\ s1.closerCalls[b] = Append(closerCalls[b], h)
               /\ (s1.resClosed[b] /\ ~resClosed[b]) =>
                    /\ closer[b] = "ok"
                    /\ s1.ret = "nil"
                    /\ s1.closerCalls[b] = Append(closerCalls[b], h)
          ELSE /\ s1.ret = "nil"
               /\ s1.closerCalls = closerCalls
               /\ s1.resClosed = resClosed

\* The last Release of a block whose closer returns an error has returned,
\* and so has a Release of another block that left its count above zero.
C28_Witness ==
  /\ Running
  /\ \E b \in Blocks :
       /\ closer[b] = "err" /\ refCount[b] = 0 /\ ~resClosed[b]
       /\ \E h \in HandlesOf(Cur, b) : closerCalls[b] = <<h>>
  /\ \E b \in Blocks :
       /\ refCount[b] > 0 /\ closerCalls[b] = <<>>
       /\ \E h \in HandlesOf(Cur, b) : released[h]

\* C29: the finalizer of a block invokes the closer only when the block was
\* never closed: on a block that Release has closed it invokes nothing.
C29_FinalizerSkipsClosed ==
  \A b \in Blocks :
    (Running /\ Unreachable(Cur, b) /\ resClosed[b]) =>
      ResourceFinalizer(Cur, b).closerCalls[b] = closerCalls[b]

\* C30: every error return of Reader leaves the entry's mutex unlocked, so
\* that a later Reader, ELF or close on the entry can proceed.
C30_ReaderErrorUnlocks ==
  \A b \in Entries, kind \in ReopenKinds, seekOK \in BOOLEAN :
    (Running /\ ~mtx[b] /\ ReopenFits(Cur, b, kind)) =>
      LET s1 == Reader(Cur, b, NextFile(Cur), kind, seekOK) IN
        s1.ret # "nil" => ~s1.mtx[b]

\* C22: the first close of an entry closes its descriptor and sets closed,
\* releasing the DebugFile reference it carries; a second close fails with
\* ErrAlreadyClosed and changes nothing: the descriptor is not closed again
\* and no reference is released again.
C22_SecondCloseFails ==
  \A b \in Entries :
    Running =>
      IF objClosed[b]
      THEN ObjClose(Cur, b) = [Cur EXCEPT !.ret = "ErrAlreadyClosed"]
      ELSE LET f == objFile[b]
               d == debugFile[b]
               s1 == ObjClose(Cur, b)
               s2 == ObjClose(s1, b)
           IN  /\ s1.objClosed[b]
               /\ s1.fileState[f] = "closed"
               /\ s1.fileCloses[f] = fileCloses[f] + 1
               /\ d # 0 => s1.released[d]
               /\ s2.ret = "ErrAlreadyClosed"
               /\ s2 = [s1 EXCEPT !.ret = "ErrAlreadyClosed"]

\* An entry whose closer ran twice, by the last Release and then by the
\* block's finalizer, with its descriptor closed once, while the reference
\* to another entry that was handed over as a DebugFile is released.
C22_Witness ==
  \E b \in Entries :
    /\ Running
    /\ objClosed[b] /\ Len(closerCalls[b]) = 2
    /\ fileCloses[objFile[b]] = 1
    /\ debugFile[b] = 0
    /\ \E h \in UserHandles : resource[h] \in Entries \ {b} /\ released[h]

\* C31: when the first rewind of Reader fails because the descriptor is
\* closed and the reopen that follows succeeds, Reader rewinds again and
\* returns a reader and its done function, not an error: the reader is on
\* the reopened descriptor at offset 0.
C31_ReaderRetriesAfterReopen ==
  \A b \in Entries, seekOK \in BOOLEAN :
    (Running /\ ~mtx[b] /\ ~objClosed[b]
       /\ fileState[objFile[b]] = "closed" /\ FreeFiles(Cur) # {}) =>
      LET f == NextFile(Cur)
          s1 == Reader(Cur, b, f, "ok", seekOK)
      IN  /\ s1.ret = "nil"
          /\ s1.objFile[b] = f
          /\ s1.fileState[f] = "open"
          /\ s1.cursor[f] = 0

\* C32: when every done function is called in the end and the mutex is
\* fair, every Reader call that waits for an entry's mutex returns in the
\* end, also after earlier Reader calls on the entry returned an error.
C32_ReaderReturns ==
  \A t \in Threads : (pc[t] = "locking") ~> (pc[t] # "locking")

\* C33: ELF on an entry that is not closed does not wait for the entry's
\* mutex and does not take it: a thread can call it while another thread
\* holds a reader whose done function was not called, and it returns the
\* ELF view leaving everything as it was.  On a closed entry ELF takes the
\* mutex: it cannot proceed while a reader holds it.
C33_ELFLockFreeWhenOpen ==
  \A t \in Threads, b \in Entries, kind \in ReopenKinds :
    (Running /\ pc[t] = "idle") =>
      /\ ~objClosed[b] =>
           /\ ENABLED CallELF(t, b, kind)
           /\ ELF(Cur, b, NextFile(Cur), kind) = [Cur EXCEPT !.out = b]
      /\ (objClosed[b] /\ mtx[b]) => ~ENABLED CallELF(t, b, kind)

\* A thread holds a reader of an entry that is not closed, its done
\* function not called, while another thread is free to call ELF.
C33_Witness ==
  \E t \in Threads, b \in Entries :
    /\ Running
    /\ pc[t] = "idle"
    /\ ~objClosed[b] /\ mtx[b]
    /\ ReadersOf(b) # {}

\* What a call on an entry leaves of the references and their counts.
RefsOf(s) == <<s.released, s.refCount, s.debugFile>>

\* C34: the close of an entry that carries a DebugFile closes the
\* descriptor, sets closed, releases the debug reference (its block's count
\* goes down by one) and clears the field, all in the one call; on an entry
\* that is closed no Reader, done function, ELF or close releases a
\* reference again, so the debug reference is released at most once.
C34_DebugFileReleasedOnce ==
  \A b \in Entries :
    Running =>
      /\ objClosed[b] => debugFile[b] = 0
      /\ (~objClosed[b] /\ debugFile[b] # 0) =>
           LET h == debugFile[b]
               d == resource[h]
               s1 == ObjClose(Cur, b)
           IN  /\ ~released[h]
               /\ s1.panicked = "none"
               /\ s1.objClosed[b] /\ s1.fileState[objFile[b]] = "closed"
               /\ s1.released[h]
               /\ s1.refCount[d] = refCount[d] - 1
               /\ s1.debugFile[b] = 0
               /\ RefsOf(ObjClose(s1, b)) = RefsOf(s1)
      /\ objClosed[b] =>
           /\ RefsOf(ObjClose(Cur, b)) = RefsOf(Cur)
           /\ \A kind \in ReopenKinds, seekOK \in BOOLEAN, re \in BOOLEAN :
                ReopenFits(Cur, b, kind) =>
                  /\ RefsOf(ELF(Cur, b, NextFile(Cur), kind)) = RefsOf(Cur)
                  /\ RefsOf(Reader(Cur, b, NextFile(Cur), kind, seekOK)) = RefsOf(Cur)
                  /\ RefsOf(Done(Cur, b, re, seekOK)) = RefsOf(Cur)

\* An entry that carried a DebugFile was closed: its field is cleared and
\* the debug reference, the last one of its entry, is released; a Reader
\* call was then made on the closed entry (it took the mutex).
C34_Witness ==
  \E b \in Entries, h \in UserHandles :
    /\ Running
    /\ objClosed[b] /\ debugFile[b] = 0
    /\ resource[h] \in Entries \ {b} /\ released[h]
    /\ closerCalls[resource[h]] = <<h>>
    /\ mtx[b]

\* C35: in every reachable state, an entry whose closed flag is false has
\* its current descriptor open, and a step that closes the descriptor of an
\* entry leaves the entry's closed flag set.
C35_OpenUnlessClosed ==
  /\ [](\A b \in Entries : ~objClosed[b] => fileState[objFile[b]] = "open")
  /\ [][\A b \in Entries :
          (fileState[objFile[b]] = "open" /\ fileState'[objFile[b]] # "open")
            => objClosed'[b]]_vars

\* An entry that was closed: its flag is set and its descriptor was closed
\* once.
C35_Witness ==
  \E b \in Entries :
    /\ objClosed[b]
    /\ fileState[objFile[b]] = "closed"
    /\ fileCloses[objFile[b]] = 1

\* C36: while a key is in the cache its pool reference is unreleased, so a
\* Get on the key returns a clone and the removal callback's Release
\* succeeds; the finalizer of the handle that NewFile made with rc.New does
\* not release the pool reference.
C36_PoolReferenceHeld ==
  \A k \in Keys :
    (Running /\ cache[k] # 0) =>
      /\ ~released[cache[k]]
      /\ ~ReferenceFinalizer(Cur, cache[k]).released[cache[k]]
      /\ FreeHandles(Cur) # {} =>
           (Get(Cur, k).ret = "nil" /\ Get(Cur, k).panicked = "none")
      /\ RemoveEntry(Cur, k).panicked = "none"

\* C37: every call of NewFile that returns an error has closed the
\* descriptor it was given and has left the cache as it was: a failed read
\* of the magic bytes, a file that is not ELF, an ELF parse failure, an ELF
\* without sections, a failed rewind, and a failed stat after a cache miss.
C37_NewFileErrorCloses ==
  \A fail \in FailKinds \ {"none"}, k \in Keys :
    (Running /\ ~poolClosed /\ NewFileFits(Cur, fail, k)) =>
      LET f == Min(FreeFiles(Cur))
          s1 == NewFile(Cur, f, fail, k)
      IN  (s1.ret # "nil" /\ s1.panicked = "none") =>
            /\ s1.fileState[f] = "closed"
            /\ s1.cache = cache

\* The descriptors that are open.
OpenFiles == {f \in Files : fileState[f] = "open"}

\* C38: whatever Reader, done, ELF and close calls were made on the one
\* entry there is, at most one descriptor opened for it is open, and none
\* is open when the entry is closed and no reader of it is outstanding.
C38_NoDescriptorLeft ==
  \A b \in Entries :
    (Running /\ Entries = {b}) =>
      /\ Cardinality(OpenFiles) <= 1
      /\ (objClosed[b] /\ ReadersOf(b) = {}) => OpenFiles = {}

\* C39: when an entry of a file without a build-id is cached, NewFile on
\* another file without a build-id returns a reference to a second entry,
\* made for that file: not a clone of the first file's entry.
C39_NoBuildIDNoCollision ==
  (Running /\ ~poolClosed /\ cache[""] # 0 /\ NewFileFits(Cur, "none", "")) =>
    LET f == Min(FreeFiles(Cur))
        s1 == NewFile(Cur, f, "none", "")
        first == resource[cache[""]]
    IN  (s1.ret = "nil" /\ s1.panicked = "none") =>
          /\ s1.resource[s1.out] # first
          /\ s1.objFile[s1.resource[s1.out]] = f
          /\ s1.objFile[first] = objFile[first]

====
